---- MODULE Spec2Model ----
(***************************************************************************)
(* Model of the trading bot: the bot core (trading_bot/bot.py), the        *)
(* exchange client (trading_bot/binance_client.py), the moving-average     *)
(* strategy (trading_bot/strategy.py) and the dashboard handlers           *)
(* (trading_bot/nicegui_app.py).                                           *)
(*                                                                         *)
(* Scheduling: one asyncio event loop.  A coroutine runs without           *)
(* interruption from one suspension point to the next, so every action     *)
(* below is the code between two suspension points.  The suspension points *)
(* are: asyncio.to_thread (the blocking exchange call runs in a worker     *)
(* thread), asyncio.sleep, awaiting a task that has not finished, and the  *)
(* gap between asyncio.create_task and the new task's first step.  The     *)
(* event loop runs what is ready in the order it became ready: tasks take  *)
(* their first steps in creation order, and once the first of several      *)
(* waiting tasks has started the others start right after it, since        *)
(* whatever else was ready before them has already run.  The               *)
(* worker thread touches no state of the bot or the dashboard, so its      *)
(* exchange call is taken in the step that resumes the coroutine.          *)
(* handle_update contains no await, so awaiting it does not suspend.       *)
(*                                                                         *)
(* Optional[T] is a sequence of length at most one: None is <<>>.          *)
(* Prices are integers in thousandths of the quote currency.               *)
(***************************************************************************)
EXTENDS Integers, Sequences, FiniteSets, TLC

\* ---------------------------------------------------------------- bounds
\* loop tasks the dashboard may create
MaxTasks == 2
\* price fetches the loops may start in all once a second task exists
MaxFetches == 2
\* price fetches the loop may start while the first task is the only one
MaxLoopFetches == 3
\* the configuration: BOT_SHORT_WINDOW, BOT_LONG_WINDOW, BOT_MAX_HISTORY
ShortWindow == 1
LongWindow == 2
MaxHistory == 1
\* calls a direct caller makes to fetch_price and to execute_trade
MaxApiFetches == 9
MaxApiOrders == 3
\* windows handed to the strategy range over -1..MaxWindow
MaxWindow == 3
\* longest history handed to evaluate directly
MaxSamples == 5

\* ------------------------------------------------------ program constants
\* BotConfig.trade_quantity, 0.001 by default, in thousandths
TradeQuantity == 1
\* the defaults of from_env for BOT_SHORT_WINDOW, BOT_LONG_WINDOW, BOT_MAX_HISTORY
DefaultShortWindow == 5
DefaultLongWindow == 20
DefaultMaxHistory == 120
\* the 5 of deque(maxlen=max(max_history, long_window + 5))
HistorySlack == 5
\* ui.log(max_lines=200)
LogMaxLines == 200

None == <<>>
Some(x) == <<x>>

Tasks == 1..MaxTasks
Prices == {1001, 2006}
\* prices of the histories handed to evaluate directly
SamplePrices == {1001, 1500, 2006}
WindowRange == (0 - 1)..MaxWindow
Credentials == {None, Some(""), Some("key")}
Secrets == {None, Some(""), Some("secret")}
LiveReplies == {[status |-> Some("FILLED"), orderId |-> Some(7)],
                [status |-> Some("NEW"), orderId |-> None],
                [status |-> None, orderId |-> None]}

VARIABLES
    cfg,            \* BotConfig held by the bot, the client and the dashboard
    running,        \* TradingBot._running
    prices,         \* TradingBot._prices, oldest first
    trades,         \* TradingBot._trades
    task,           \* the asyncio tasks running TradingBot.run, by creation order
    bot_task,       \* nicegui_app: bot_task (Optional task)
    starting,       \* number of start_bot coroutines suspended in refresh_balance
    refreshing,     \* number of refresh_balance button coroutines suspended
    waiters,        \* waiters[t]: stop_bot coroutines suspended in "await bot_task"
    shutdown,       \* the _shutdown hook: its position and the task it awaits
    ui,             \* labels, chart sequences and log of the dashboard
    api,            \* a direct caller of fetch_price / execute_trade
    calls,          \* history: number of calls made to each exchange endpoint
    hist            \* history: fetched prices, updates published, bot.stop() calls

vars == <<cfg, running, prices, trades, task, bot_task, starting, refreshing,
          waiters, shutdown, ui, api, calls, hist>>

\* --------------------------------------------------------------- config.py

\* Strings read from the environment are sequences of characters.
UpperCase == <<"A", "B", "C", "D", "E", "F", "G", "H", "I", "J", "K", "L", "M",
               "N", "O", "P", "Q", "R", "S", "T", "U", "V", "W", "X", "Y", "Z">>
LowerCase == <<"a", "b", "c", "d", "e", "f", "g", "h", "i", "j", "k", "l", "m",
               "n", "o", "p", "q", "r", "s", "t", "u", "v", "w", "x", "y", "z">>
Letters == 1..Len(UpperCase)
Whitespace == {" "}

LowerChar(c) ==
    IF \E i \in Letters : UpperCase[i] = c
        THEN LowerCase[CHOOSE i \in Letters : UpperCase[i] = c] ELSE c
UpperChar(c) ==
    IF \E i \in Letters : LowerCase[i] = c
        THEN UpperCase[CHOOSE i \in Letters : LowerCase[i] = c] ELSE c

\* str.lower, str.upper, str.strip
Lower(s) == [i \in 1..Len(s) |-> LowerChar(s[i])]
Upper(s) == [i \in 1..Len(s) |-> UpperChar(s[i])]
RECURSIVE StripLeft(_)
StripLeft(s) == IF s # <<>> /\ Head(s) \in Whitespace THEN StripLeft(Tail(s)) ELSE s
RECURSIVE StripRight(_)
StripRight(s) ==
    IF s # <<>> /\ s[Len(s)] \in Whitespace
        THEN StripRight(SubSeq(s, 1, Len(s) - 1)) ELSE s
Strip(s) == StripRight(StripLeft(s))

TrueWords == {<<"1">>,
              <<"t", "r", "u", "e">>,
              <<"v", "r", "a", "i">>,
              <<"y", "e", "s">>,
              <<"o", "u", "i">>,
              <<"o", "n">>}
FalseWords == {<<"0">>,
               <<"f", "a", "l", "s", "e">>,
               <<"f", "a", "u", "x">>,
               <<"n", "o">>,
               <<"n", "o", "n">>,
               <<"o", "f", "f">>}

\* _parse_bool(value, default): "True", "False" or "ValueError"
parse_bool(value, default) ==
    IF value = None THEN default
    ELSE LET normalized == Lower(Strip(value[1]))
         IN  IF normalized \in TrueWords THEN "True"
             ELSE IF normalized \in FalseWords THEN "False"
             ELSE "ValueError"

\* An environment variable is named by its exchange prefix (empty for the
\* variables that have none) and the rest of its name; f"{prefix}_{name}" is
\* the pair.  os.getenv gives None for a variable that is not set.
Binance == <<"b", "i", "n", "a", "n", "c", "e">>
BINANCE == Upper(Binance)
EnvName(prefix, name) == <<prefix, name>>
Getenv(env, name) == IF name \in DOMAIN env THEN env[name] ELSE None

\* "value is not None and value.strip() != ''"
NonBlank(value) == value # None /\ Strip(value[1]) # <<>>

\* a loader that knows no exchange-specific values
get_exchange_valueNever(env, exchange_prefix, name) == None

\* _get_exchange_value(name) inside from_env
get_exchange_value(env, exchange_prefix, name) ==
    LET value == Getenv(env, EnvName(exchange_prefix, name))
        legacy_value == Getenv(env, EnvName(BINANCE, name))
    IN  IF NonBlank(value) THEN value
        ELSE IF exchange_prefix # BINANCE /\ NonBlank(legacy_value) THEN legacy_value
        ELSE None

\* "a or b" on optional strings
OrElse(a, b) == IF a # None /\ a[1] # <<>> THEN a ELSE b

\* BotConfig.from_env(): the configuration, or the ValueError raised.  The
\* numeric variables are not set, so the numeric fields take their defaults.
from_env(env) ==
    LET exchange_raw == OrElse(Getenv(env, EnvName(<<>>, "ACTIVE_EXCHANGE")), Some(Binance))[1]
        stripped == Lower(Strip(exchange_raw))
        exchange == IF stripped # <<>> THEN stripped ELSE Binance
        exchange_prefix == Upper(exchange)
        exchange_test_mode == get_exchange_value(env, exchange_prefix, "TEST_MODE")
        test_mode == IF exchange_test_mode # None
                         THEN parse_bool(exchange_test_mode, "True")
                         ELSE parse_bool(Getenv(env, EnvName(<<>>, "BOT_TEST_MODE")), "True")
    IN  [kind |-> IF test_mode = "ValueError" THEN "ValueError" ELSE "ok",
         config |-> [api_key |-> OrElse(get_exchange_value(env, exchange_prefix, "API_KEY"),
                                        Getenv(env, EnvName(<<>>, "EXCHANGE_API_KEY"))),
                     api_secret |-> OrElse(get_exchange_value(env, exchange_prefix, "API_SECRET"),
                                           Getenv(env, EnvName(<<>>, "EXCHANGE_API_SECRET"))),
                     test_mode |-> test_mode = "True",
                     short_window |-> DefaultShortWindow,
                     long_window |-> DefaultLongWindow,
                     max_history |-> DefaultMaxHistory,
                     trade_quantity |-> TradeQuantity]]

\* ------------------------------------------------------------- strategy.py

RECURSIVE Sum(_)
Sum(s) == IF s = <<>> THEN 0 ELSE Head(s) + Sum(Tail(s))

\* mean(a) > mean(b) over non-empty integer sequences, without division
MeanGT(a, b) == Sum(a) * Len(b) > Sum(b) * Len(a)
MeanLT(a, b) == Sum(a) * Len(b) < Sum(b) * Len(a)
\* a rule that looks at the current ordering only
MeanLEAlways(a, b) == TRUE

\* a strict comparison in place of <=
MeanLEStrict(a, b) == MeanLT(a, b)
MeanLE(a, b) == ~MeanGT(a, b)
MeanGE(a, b) == ~MeanLT(a, b)

\* prices[-n:] and prices[-n-1:-1] of a list or tuple with more than n items
LastN(items, n) == SubSeq(items, Len(items) - n + 1, Len(items))
PrevN(items, n) == SubSeq(items, Len(items) - n, Len(items) - 1)

\* A deque supports len() and integer indexing but not slicing:
\* deque[-n:] raises TypeError.
Sliceable(kind) == kind \in {"list", "tuple"}

\* a constructor that only wants positive windows
post_initPositiveOnly(short_window, long_window) ==
    IF short_window <= 0 \/ long_window <= 0 THEN "ValueError" ELSE "ok"

\* MovingAverageStrategy.__post_init__: "ok" or the exception raised
post_init(short_window, long_window) ==
    IF short_window <= 0 \/ long_window <= 0 THEN "ValueError"
    ELSE IF short_window >= long_window THEN "ValueError"
    ELSE "ok"

\* MovingAverageStrategy.evaluate(prices) for prices = [kind, items]
evaluate(seq, short_window, long_window) ==
    IF Len(seq.items) < long_window + 1 THEN "HOLD"
    ELSE IF ~Sliceable(seq.kind) THEN "TypeError"
    ELSE LET short_ma == LastN(seq.items, short_window)
             long_ma == LastN(seq.items, long_window)
             previous_short == PrevN(seq.items, short_window)
             previous_long == PrevN(seq.items, long_window)
         IN  IF MeanGT(short_ma, long_ma) /\ MeanLE(previous_short, previous_long)
                 THEN "BUY"
             ELSE IF MeanLT(short_ma, long_ma) /\ MeanGE(previous_short, previous_long)
                 THEN "SELL"
             ELSE "HOLD"

\* ------------------------------------------------------- binance_client.py

Truthy(opt) == opt # None /\ opt[1] # ""

NoResult == [kind |-> "none", price |-> 0, msg |-> "", status |-> None,
             orderId |-> None, endpoint |-> "none"]

\* What the exchange does with a ticker request
TickerReplies == {[kind |-> "ticker", price |-> Some(p)] : p \in Prices}
                 \cup {[kind |-> "ticker", price |-> None],
                       [kind |-> "ClientError", price |-> None],
                       [kind |-> "failure", price |-> None]}

\* BinanceClient.get_symbol_price: the value returned or the exception raised
get_symbol_price(reply) ==
    IF reply.kind = "ClientError"
        THEN [NoResult EXCEPT !.kind = "TradingBotError", !.msg = "price_unavailable",
                              !.endpoint = "ticker_price"]
    ELSE IF reply.kind = "failure"
        THEN [NoResult EXCEPT !.kind = "Exception", !.endpoint = "ticker_price"]
    ELSE IF reply.price = None
        THEN [NoResult EXCEPT !.kind = "TradingBotError", !.msg = "unexpected_response",
                              !.endpoint = "ticker_price"]
    ELSE [NoResult EXCEPT !.kind = "ok", !.price = reply.price[1],
                          !.endpoint = "ticker_price"]

\* What the exchange does with an order request
OrderReplies == {[kind |-> "accepted", status |-> r.status, orderId |-> r.orderId] :
                    r \in LiveReplies}
                \cup {[kind |-> "ClientError", status |-> None, orderId |-> None],
                      [kind |-> "failure", status |-> None, orderId |-> None]}

\* a check of the key alone
CredentialsMissingKeyOnly(api_key, api_secret) == ~Truthy(api_key)

\* "if not self._client.api_key or not self._client.api_secret"
CredentialsMissing(api_key, api_secret) == ~Truthy(api_key) \/ ~Truthy(api_secret)

\* a client that ignores test_mode
OrderEndpointLive(test_mode) == "new_order"

\* the endpoint place_market_order submits to
OrderEndpoint(test_mode) == IF test_mode THEN "new_order_test" ELSE "new_order"

\* BinanceClient.place_market_order: the order dict returned or the exception
\* raised, and the endpoint that was called ("none" when none was)
place_market_order(api_key, api_secret, test_mode, reply) ==
    IF CredentialsMissing(api_key, api_secret)
        THEN [NoResult EXCEPT !.kind = "TradingBotError", !.msg = "credentials_required"]
    ELSE LET endpoint == OrderEndpoint(test_mode) IN
         IF reply.kind = "ClientError"
             THEN [NoResult EXCEPT !.kind = "TradingBotError", !.msg = "order_failed",
                                   !.endpoint = endpoint]
         ELSE IF reply.kind = "failure"
             THEN [NoResult EXCEPT !.kind = "Exception", !.endpoint = endpoint]
         ELSE IF endpoint = "new_order_test"
             THEN [NoResult EXCEPT !.kind = "ok", !.status = Some("TEST"),
                                   !.endpoint = endpoint]
         ELSE [NoResult EXCEPT !.kind = "ok", !.status = reply.status,
                               !.orderId = reply.orderId, !.endpoint = endpoint]

\* the exchange endpoint counters after a client call with result res
Called(res) == IF res.endpoint = "none" THEN calls
               ELSE [calls EXCEPT ![res.endpoint] = @ + 1]

\* ------------------------------------------------------------------ bot.py

\* deque(maxlen=...) capacity set in TradingBot.__init__
Capacity(config) ==
    IF config.max_history >= config.long_window + HistorySlack
        THEN config.max_history ELSE config.long_window + HistorySlack

\* a deque without maxlen
DequeAppendUnbounded(q, x, maxlen) == Append(q, x)

\* deque.append on a deque with maxlen
DequeAppend(q, x, maxlen) ==
    IF Len(q) >= maxlen THEN Append(Tail(q), x) ELSE Append(q, x)

\* the Trade built by execute_trade from the order dict
MakeTrade(signal, price, order, config) ==
    [side |-> signal,
     price |-> price,
     quantity |-> config.trade_quantity,
     status |-> IF order.status = None THEN "FILLED" ELSE order.status[1],
     order_id |-> order.orderId]

\* run() without its test of the running flag
AlreadyRunningNever == FALSE

\* "if self._running: return" under the lock in run().  The lock is taken and
\* released within one step (nothing is awaited while it is held), so no step
\* ever finds it held.
AlreadyRunning == running

\* a loop body that catches nothing
RecoverableNever(kind) == FALSE

\* "except TradingBotError" in the loop body
Recoverable(kind) == kind = "TradingBotError"

\* "while self._running"
LoopContinues == running

BotUpdate(price, signal, trade, error) ==
    [price |-> price, signal |-> signal, trade |-> trade, error |-> error]

\* ---------------------------------------------------------- nicegui_app.py

\* round(price, 2) of a price in thousandths (the inputs avoid exact ties)
Round2(p) == ((p + 5) \div 10) * 10

\* a chart that never evicts
ChartOverflowNever(timestamps, config) == FALSE

\* "if len(timestamps) > cfg.max_history"
ChartOverflow(timestamps, config) == Len(timestamps) > config.max_history

\* handle_update(update) while the bot's running flag is isRunning
handle_update(u, update, isRunning, config, now) ==
    LET withPrice == update.price # None
        ts1 == IF withPrice THEN Append(u.timestamps, now) ELSE u.timestamps
        ps1 == IF withPrice THEN Append(u.prices, Round2(update.price[1])) ELSE u.prices
        evict == withPrice /\ ChartOverflow(ts1, config)
        log1 == IF update.trade # None THEN Append(u.log, "trade") ELSE u.log
        log2 == IF update.error # None THEN Append(log1, "warning") ELSE log1
    IN  [u EXCEPT
            !.price_label = IF withPrice THEN update.price ELSE @,
            !.timestamps = IF evict THEN Tail(ts1) ELSE ts1,
            !.prices = IF evict THEN Tail(ps1) ELSE ps1,
            !.signal_label = update.signal,
            !.log = IF Len(log2) > LogMaxLines THEN Tail(log2) ELSE log2,
            !.status_label = IF isRunning THEN "en cours" ELSE "arrete"]

\* _emit_update with the dashboard's handle_update as the callback
Emit(update) ==
    /\ ui' = handle_update(ui, update, running, cfg, Len(hist.updates) + 1)
    /\ hist' = [hist EXCEPT !.updates = Append(@, update)]

\* get_account_balance as refresh_balance sees it: the label it leaves, or
\* "Exception" when a failure other than TradingBotError escapes
BalanceOutcomes == {"balance", "unavailable", "Exception"}

\* ------------------------------------------------------------ initial state

Configs(keys, secrets, modes, maxHistories) ==
    [api_key : keys, api_secret : secrets, test_mode : modes,
     short_window : {ShortWindow}, long_window : {LongWindow},
     max_history : maxHistories, trade_quantity : {TradeQuantity}]

\* a task: where it is suspended, the locals price and signal of run(), and
\* how its last exchange call ended
NewTask == [pc |-> "new", price |-> 0, signal |-> "none", got |-> "none"]

\* the state create_app leaves, the direct-call record api being at pc with
\* an argument drawn from args
InitAt(configs, pc, args) ==
    /\ cfg \in configs
    /\ running = FALSE
    /\ prices = <<>>
    /\ trades = <<>>
    /\ task = [t \in Tasks |-> NewTask]
    /\ bot_task = None
    /\ starting = 0
    /\ refreshing = 0
    /\ waiters = [t \in Tasks |-> 0]
    /\ shutdown = [pc |-> "idle", on |-> None]
    /\ ui = [status_label |-> "arrete", price_label |-> None, signal_label |-> "HOLD",
             balance_label |-> "", timestamps |-> <<>>, prices |-> <<>>, log |-> <<>>]
    /\ api \in [pc : {pc}, price : {0}, signal : {"none"}, result : {"none"},
               fetches : {0}, orders : {0}, arg : args, log : {<<>>}]
    /\ calls = [ticker_price |-> 0, new_order |-> 0, new_order_test |-> 0]
    /\ hist = [fetched |-> <<>>, updates |-> <<>>, fetches |-> 0, stops |-> 0]

InitWith(configs) == InitAt(configs, "idle", {<<>>})

\* the dashboard with the default test mode, without and with credentials
Init == InitWith(Configs({None, Some("key")}, {Some("secret")}, {TRUE}, {MaxHistory}))

\* ------------------------------------------------- TradingBot.run, by steps

Finished(t) == task[t].pc \in {"returned", "raised"}
\* created and not yet started; "due" once a task created before it has
\* taken its first step, which makes this one the next to run
Pending(t) == task[t].pc \in {"created", "due"}
Quiet == \A t \in Tasks : task[t].pc # "due"
InLoop(t) == task[t].pc \in {"fetch", "order", "sleep"}
Exited == shutdown.pc \in {"returned", "raised"}
Created == {t \in Tasks : task[t].pc # "new"}
CanFetch ==
    hist.fetches < (IF Cardinality(Created) <= 1 THEN MaxLoopFetches ELSE MaxFetches)

\* the task enters fetch_price and suspends in asyncio.to_thread
BeginFetch(t) ==
    /\ task' = [task EXCEPT ![t] = [pc |-> "fetch", price |-> 0, signal |-> "none",
                                        got |-> "none"]]
    /\ hist' = [hist EXCEPT !.fetches = @ + 1]

\* a run() without its finally clause
LeaveLoopFlagKept(t, how, got) ==
    /\ running' = running
    /\ task' = [task EXCEPT ![t].pc = how, ![t].got = got]

\* the finally clause of run(), then the task ends
LeaveLoop(t, how, got) ==
    /\ running' = FALSE
    /\ task' = [task EXCEPT ![t].pc = how, ![t].got = got]

\* task u once task t has taken its first step, which left t at pc
FirstStep(t, u, pc) ==
    IF u = t THEN [task[t] EXCEPT !.pc = pc]
    ELSE IF task[u].pc = "created" THEN [task[u] EXCEPT !.pc = "due"]
    ELSE task[u]

\* First step of a task created for bot.run(handle_update): the guarded
\* transition to running, the first loop test and the start of the first fetch.
RunEnter(t) ==
    /\ ~Exited
    /\ Pending(t)
    /\ \A u \in Tasks : Pending(u) => t <= u
    /\ IF AlreadyRunning
         THEN /\ task' = [u \in Tasks |-> FirstStep(t, u, "returned")]
              /\ UNCHANGED <<running, hist>>
         ELSE /\ CanFetch
              /\ running' = TRUE
              /\ task' = [u \in Tasks |-> FirstStep(t, u, "fetch")]
              /\ hist' = [hist EXCEPT !.fetches = @ + 1]
    /\ UNCHANGED <<cfg, prices, trades, bot_task, starting, refreshing, waiters,
                   shutdown, ui, api, calls>>

\* execute_trade after to_thread returned order
RecordTrade(signal, price, order) ==
    trades' = Append(trades, MakeTrade(signal, price, order, cfg))

\* the loop body from the return of fetch_price's to_thread to the next
\* suspension point, res being what get_symbol_price returned or raised
AfterFetch(t, res) ==
    IF Recoverable(res.kind) THEN
        /\ Emit(BotUpdate(None, "HOLD", None, Some(res.msg)))
        /\ task' = [task EXCEPT ![t].pc = "sleep", ![t].got = res.kind]
        /\ UNCHANGED <<running, prices, trades>>
    ELSE IF res.kind # "ok" THEN
        /\ LeaveLoop(t, "raised", res.kind)
        /\ UNCHANGED <<prices, trades, ui, hist>>
    ELSE
        LET history == DequeAppend(prices, res.price, Capacity(cfg))
            signal == evaluate([kind |-> "deque", items |-> history],
                               cfg.short_window, cfg.long_window)
            update == BotUpdate(Some(res.price), signal, None, None)
        IN  /\ prices' = history
            /\ trades' = trades
            /\ IF signal = "TypeError" THEN
                   /\ LeaveLoop(t, "raised", res.kind)
                   /\ hist' = [hist EXCEPT !.fetched = Append(@, res.price)]
                   /\ ui' = ui
               ELSE IF signal \in {"BUY", "SELL"} THEN
                   /\ task' = [task EXCEPT ![t] = [pc |-> "order", price |-> res.price,
                                                   signal |-> signal, got |-> "ok"]]
                   /\ hist' = [hist EXCEPT !.fetched = Append(@, res.price)]
                   /\ UNCHANGED <<running, ui>>
               ELSE
                   /\ ui' = handle_update(ui, update, running, cfg, Len(hist.updates) + 1)
                   /\ hist' = [hist EXCEPT !.fetched = Append(@, res.price),
                                           !.updates = Append(@, update)]
                   /\ task' = [task EXCEPT ![t].pc = "sleep", ![t].got = res.kind]
                   /\ running' = running

\* the loop body from the return of execute_trade's to_thread to the sleep,
\* res being what place_market_order returned or raised
AfterOrder(t, res) ==
    IF res.kind = "ok" THEN
        /\ RecordTrade(task[t].signal, task[t].price, res)
        /\ Emit(BotUpdate(Some(task[t].price), task[t].signal,
                          Some(MakeTrade(task[t].signal, task[t].price, res, cfg)), None))
        /\ task' = [task EXCEPT ![t].pc = "sleep", ![t].got = res.kind]
        /\ UNCHANGED <<running, prices>>
    ELSE IF Recoverable(res.kind) THEN
        /\ Emit(BotUpdate(Some(task[t].price), task[t].signal, None, Some(res.msg)))
        /\ task' = [task EXCEPT ![t].pc = "sleep", ![t].got = res.kind]
        /\ UNCHANGED <<running, prices, trades>>
    ELSE
        /\ LeaveLoop(t, "raised", res.kind)
        /\ UNCHANGED <<prices, trades, ui, hist>>

\* The exchange call of the task's worker thread completes and the event
\* loop resumes the task, which runs to its next suspension point.
Resume(t) ==
    /\ ~Exited
    /\ Quiet
    /\ task[t].pc \in {"fetch", "order"}
    /\ IF task[t].pc = "fetch"
         THEN \E reply \in TickerReplies :
                LET res == get_symbol_price(reply)
                IN  calls' = Called(res) /\ AfterFetch(t, res)
         ELSE \E reply \in OrderReplies :
                LET res == place_market_order(cfg.api_key, cfg.api_secret,
                                              cfg.test_mode, reply)
                IN  calls' = Called(res) /\ AfterOrder(t, res)
    /\ UNCHANGED <<cfg, bot_task, starting, refreshing, waiters, shutdown, api>>

\* asyncio.sleep(poll_interval) is over: the loop test, then the next fetch
\* or the finally clause.
Wake(t) ==
    /\ ~Exited
    /\ Quiet
    /\ task[t].pc = "sleep"
    /\ IF LoopContinues
         THEN /\ CanFetch
              /\ BeginFetch(t)
              /\ UNCHANGED running
         ELSE /\ LeaveLoop(t, "returned", task[t].got)
              /\ UNCHANGED hist
    /\ UNCHANGED <<cfg, prices, trades, bot_task, starting, refreshing, waiters,
                   shutdown, ui, api, calls>>

\* --------------------------------------------- dashboard handlers, by steps

Unborn == {t \in Tasks : task[t].pc = "new"}
NextTask == CHOOSE t \in Unborn : \A u \in Unborn : t <= u

\* bot_task = asyncio.create_task(bot.run(handle_update))
CreateTask ==
    /\ task' = [task EXCEPT ![NextTask].pc = "created"]
    /\ bot_task' = Some(NextTask)

\* "if bot.is_running" at the head of start_bot
StartRefused == running

\* start_bot up to its first suspension point (or to its end)
StartClick ==
    /\ shutdown.pc = "idle"
    /\ Quiet
    /\ IF StartRefused THEN
           /\ ui' = [ui EXCEPT !.status_label = "deja en cours"]
           /\ UNCHANGED <<task, bot_task, starting>>
       ELSE
           /\ Cardinality(Unborn) > starting
           /\ IF CredentialsMissing(cfg.api_key, cfg.api_secret) THEN
                  /\ ui' = [ui EXCEPT !.status_label = "demarrage",
                                      !.balance_label = "unconfigured"]
                  /\ CreateTask
                  /\ UNCHANGED starting
              ELSE
                  /\ ui' = [ui EXCEPT !.status_label = "demarrage"]
                  /\ starting' = starting + 1
                  /\ UNCHANGED <<task, bot_task>>
    /\ UNCHANGED <<cfg, running, prices, trades, refreshing, waiters, shutdown,
                   api, calls, hist>>

\* start_bot from the return of get_account_balance's to_thread to its end
StartResume ==
    /\ ~Exited
    /\ Quiet
    /\ starting > 0
    /\ starting' = starting - 1
    /\ \E outcome \in BalanceOutcomes :
         IF outcome = "Exception" THEN
             UNCHANGED <<task, bot_task, ui>>
         ELSE
             /\ ui' = [ui EXCEPT !.balance_label = outcome]
             /\ CreateTask
    /\ UNCHANGED <<cfg, running, prices, trades, refreshing, waiters, shutdown,
                   api, calls, hist>>

\* refresh_balance from the button, up to its first suspension point
RefreshClick ==
    /\ shutdown.pc = "idle"
    /\ Quiet
    /\ IF CredentialsMissing(cfg.api_key, cfg.api_secret) THEN
           /\ ui' = [ui EXCEPT !.balance_label = "unconfigured"]
           /\ UNCHANGED refreshing
       ELSE
           /\ refreshing = 0
           /\ refreshing' = refreshing + 1
           /\ UNCHANGED ui
    /\ UNCHANGED <<cfg, running, prices, trades, task, bot_task, starting, waiters,
                   shutdown, api, calls, hist>>

\* refresh_balance from the return of get_account_balance's to_thread
RefreshResume ==
    /\ ~Exited
    /\ Quiet
    /\ refreshing > 0
    /\ refreshing' = refreshing - 1
    /\ \E outcome \in BalanceOutcomes :
         ui' = IF outcome = "Exception" THEN ui ELSE [ui EXCEPT !.balance_label = outcome]
    /\ UNCHANGED <<cfg, running, prices, trades, task, bot_task, starting, waiters,
                   shutdown, api, calls, hist>>

\* a stop() that raises the flag
BotStopRaisesFlag ==
    /\ running' = TRUE
    /\ hist' = [hist EXCEPT !.stops = @ + 1]

\* TradingBot.stop()
BotStop ==
    /\ running' = FALSE
    /\ hist' = [hist EXCEPT !.stops = @ + 1]

\* a stop_bot without its test of the flag
StopRefusedNever == FALSE

\* "if not bot.is_running" at the head of stop_bot
StopRefused == ~running

\* stop_bot after "await bot_task" has returned
StopReport ==
    /\ bot_task' = None
    /\ ui' = [ui EXCEPT !.status_label = "arrete"]

\* stop_bot up to its first suspension point (or to its end)
StopClick ==
    /\ shutdown.pc = "idle"
    /\ Quiet
    /\ IF StopRefused THEN
           /\ ui' = [ui EXCEPT !.status_label = "arrete"]
           /\ UNCHANGED <<running, hist, bot_task, waiters>>
       ELSE
           /\ BotStop
           /\ IF bot_task = None THEN
                  /\ ui' = [ui EXCEPT !.status_label = "arrete"]
                  /\ UNCHANGED <<bot_task, waiters>>
              ELSE IF task[bot_task[1]].pc = "returned" THEN
                  /\ StopReport
                  /\ UNCHANGED waiters
              ELSE IF task[bot_task[1]].pc = "raised" THEN
                  UNCHANGED <<bot_task, waiters, ui>>
              ELSE
                  /\ waiters' = [waiters EXCEPT ![bot_task[1]] = @ + 1]
                  /\ UNCHANGED <<bot_task, ui>>
    /\ UNCHANGED <<cfg, prices, trades, task, starting, refreshing, shutdown,
                   api, calls>>

\* a stop_bot suspended in "await bot_task" resumes when that task has ended
StopResume(t) ==
    /\ ~Exited
    /\ Quiet
    /\ waiters[t] > 0
    /\ Finished(t)
    /\ waiters' = [waiters EXCEPT ![t] = @ - 1]
    /\ IF task[t].pc = "returned" THEN StopReport
       ELSE UNCHANGED <<bot_task, ui>>
    /\ UNCHANGED <<cfg, running, prices, trades, task, starting, refreshing,
                   shutdown, api, calls, hist>>

\* the _shutdown hook up to its first suspension point (or to its end)
Shutdown ==
    /\ shutdown.pc = "idle"
    /\ Quiet
    /\ BotStop
    /\ shutdown' =
         IF bot_task = None THEN [pc |-> "returned", on |-> None]
         ELSE IF Finished(bot_task[1]) THEN [pc |-> task[bot_task[1]].pc, on |-> None]
         ELSE [pc |-> "waiting", on |-> bot_task]
    /\ UNCHANGED <<cfg, prices, trades, task, bot_task, starting, refreshing,
                   waiters, ui, api, calls>>

\* the _shutdown hook resumes when the task it awaits has ended
ShutdownResume ==
    /\ shutdown.pc = "waiting"
    /\ Quiet
    /\ Finished(shutdown.on[1])
    /\ shutdown' = [pc |-> task[shutdown.on[1]].pc, on |-> None]
    /\ UNCHANGED <<cfg, running, prices, trades, task, bot_task, starting,
                   refreshing, waiters, ui, api, calls, hist>>

Next ==
    \/ StartClick
    \/ StartResume
    \/ StopClick
    \/ \E t \in Tasks : StopResume(t)
    \/ Shutdown
    \/ ShutdownResume
    \/ \E t \in Tasks : RunEnter(t)
    \/ \E t \in Tasks : Resume(t)
    \/ \E t \in Tasks : Wake(t)

Spec == Init /\ [][Next]_vars

\* the same with the balance button in use
NextRefresh ==
    \/ Next
    \/ RefreshClick
    \/ RefreshResume

SpecRefresh == Init /\ [][NextRefresh]_vars

\* ------------------------- fetch_price and execute_trade called directly
\* A caller awaits TradingBot.fetch_price() or TradingBot.execute_trade()
\* outside the loop, one call at a time; an exception reaches the caller.

dashVars == <<running, task, bot_task, starting, refreshing, waiters, shutdown, ui>>

\* await bot.fetch_price(): up to asyncio.to_thread
FetchCall ==
    /\ api.pc = "idle"
    /\ api.fetches < MaxApiFetches
    /\ api' = [api EXCEPT !.pc = "fetch", !.fetches = @ + 1, !.result = "none"]
    /\ UNCHANGED <<cfg, prices, trades, calls, hist, dashVars>>

\* fetch_price from the return of to_thread: the append, or the exception
FetchReturn ==
    /\ api.pc = "fetch"
    /\ \E reply \in TickerReplies :
         LET res == get_symbol_price(reply) IN
         /\ calls' = Called(res)
         /\ api' = [api EXCEPT !.pc = "idle", !.result = res.kind]
         /\ IF res.kind = "ok"
              THEN /\ prices' = DequeAppend(prices, res.price, Capacity(cfg))
                   /\ hist' = [hist EXCEPT !.fetched = Append(@, res.price)]
              ELSE UNCHANGED <<prices, hist>>
    /\ UNCHANGED <<cfg, trades, dashVars>>

\* await bot.execute_trade(signal, price): up to asyncio.to_thread
TradeCall(signal, price) ==
    /\ api.pc = "idle"
    /\ api.orders < MaxApiOrders
    /\ api' = [api EXCEPT !.pc = "order", !.orders = @ + 1, !.result = "none",
                          !.signal = signal, !.price = price]
    /\ UNCHANGED <<cfg, prices, trades, calls, hist, dashVars>>

\* execute_trade from the return of to_thread: the Trade, or the exception
TradeReturn ==
    /\ api.pc = "order"
    /\ \E reply \in OrderReplies :
         LET res == place_market_order(cfg.api_key, cfg.api_secret, cfg.test_mode, reply)
         IN  /\ calls' = Called(res)
             /\ api' = [api EXCEPT !.pc = "idle", !.result = res.kind]
             /\ IF res.kind = "ok"
                  THEN RecordTrade(api.signal, api.price, res)
                  ELSE UNCHANGED trades
    /\ UNCHANGED <<cfg, prices, hist, dashVars>>

\* fetch_price called repeatedly, for both branches of the capacity rule
InitPrices ==
    InitWith(Configs({None}, {None}, {TRUE},
                     {MaxHistory, LongWindow + HistorySlack + 1}))

NextPrices ==
    \/ FetchCall
    \/ FetchReturn

SpecPrices == InitPrices /\ [][NextPrices]_vars

\* execute_trade called repeatedly, for every credential pair and test mode
InitOrders == InitWith(Configs(Credentials, Secrets, BOOLEAN, {MaxHistory}))

NextOrders ==
    \/ \E signal \in {"BUY", "SELL"}, price \in Prices : TradeCall(signal, price)
    \/ TradeReturn

SpecOrders == InitOrders /\ [][NextOrders]_vars

\* ------------------------------- the strategy constructed and called directly

\* the sequences over S of length at most n
RECURSIVE SeqsUpTo(_, _)
SeqsUpTo(S, n) ==
    IF n = 0 THEN {<<>>}
    ELSE LET shorter == SeqsUpTo(S, n - 1)
         IN  shorter \cup {Append(h, x) : h \in {g \in shorter : Len(g) = n - 1}, x \in S}

\* create_app(config) up to the construction of the bot: the strategy is
\* built first, and its ValueError leaves create_app before anything else
\* is built
CreateApp ==
    /\ api.pc = "config"
    /\ LET built == post_init(cfg.short_window, cfg.long_window)
       IN  api' = [api EXCEPT !.pc = IF built = "ok" THEN "idle" ELSE "refused",
                              !.result = built]
    /\ UNCHANGED <<cfg, prices, trades, calls, hist, dashVars>>

\* bot.strategy.evaluate(history) on a list
StrategyCall ==
    /\ api.pc = "idle"
    /\ \E history \in SeqsUpTo(SamplePrices, MaxSamples) :
         api' = [api EXCEPT !.pc = "evaluated",
                            !.arg = history,
                            !.signal = evaluate([kind |-> "list", items |-> history],
                                                cfg.short_window, cfg.long_window)]
    /\ UNCHANGED <<cfg, prices, trades, calls, hist, dashVars>>

\* create_app about to be called with a config of any two windows
InitStrategy ==
    \E s \in WindowRange, l \in WindowRange :
        InitAt({[c EXCEPT !.short_window = s, !.long_window = l] :
                   c \in Configs({None}, {None}, {TRUE}, {MaxHistory})}, "config", {<<>>})

NextStrategy ==
    \/ CreateApp
    \/ StrategyCall

SpecStrategy == InitStrategy /\ [][NextStrategy]_vars

\* ------------------------ iterations made of direct calls: fetch, evaluate

\* await bot.fetch_price(), once the price fetched before it was evaluated
SampleCall ==
    /\ api.result # "ok"
    /\ FetchCall

\* bot.strategy.evaluate(bot.prices) after a successful fetch_price; the
\* prices property hands out a tuple.  The signal joins the log of signals.
EvaluatePrices ==
    /\ api.pc = "idle"
    /\ api.result = "ok"
    /\ LET signal == evaluate([kind |-> "tuple", items |-> prices],
                              cfg.short_window, cfg.long_window)
       IN  api' = [api EXCEPT !.result = "evaluated",
                              !.signal = signal,
                              !.log = Append(@, signal)]
    /\ UNCHANGED <<cfg, prices, trades, calls, hist, dashVars>>

\* a bot built for any pair of windows the strategy accepts
InitSignals ==
    \E s \in WindowRange, l \in WindowRange :
        /\ post_init(s, l) = "ok"
        /\ InitWith({[c EXCEPT !.short_window = s, !.long_window = l] :
                       c \in Configs({None}, {None}, {TRUE}, {MaxHistory})})

NextSignals ==
    \/ SampleCall
    \/ FetchReturn
    \/ EvaluatePrices

SpecSignals == InitSignals /\ [][NextSignals]_vars

\* ----------------------------------------- the configuration read at start

\* what an environment variable may hold, None when it is not set
BoolTexts ==
    {None, Some(<<>>),
     Some(<<" ">>),
     Some(<<"t", "r", "u", "e">>),
     Some(<<" ", "T", "r", "u", "e", " ">>),
     Some(<<"f", "a", "l", "s", "e">>),
     Some(<<"O", "F", "F">>),
     Some(<<"2">>)}
ExchangeTexts ==
    {None, Some(<<>>),
     Some(<<" ">>),
     Some(<<"b", "i", "n", "a", "n", "c", "e">>),
     Some(<<" ", "B", "i", "n", "a", "n", "c", "e", " ">>),
     Some(<<"K", "r", "a", "k", "e", "n">>)}
KRAKEN == <<"K", "R", "A", "K", "E", "N">>

\* the environments: the active exchange and the three test-mode variables
Environments ==
    {[n \in {EnvName(<<>>, "ACTIVE_EXCHANGE"), EnvName(BINANCE, "TEST_MODE"),
             EnvName(KRAKEN, "TEST_MODE"), EnvName(<<>>, "BOT_TEST_MODE")} |->
         IF n = EnvName(<<>>, "ACTIVE_EXCHANGE") THEN a
         ELSE IF n = EnvName(BINANCE, "TEST_MODE") THEN b
         ELSE IF n = EnvName(KRAKEN, "TEST_MODE") THEN k
         ELSE t] :
        a \in ExchangeTexts, b \in BoolTexts, k \in BoolTexts, t \in BoolTexts}

\* BotConfig(): the defaults of the dataclass fields
DefaultConfig ==
    [api_key |-> None, api_secret |-> None, test_mode |-> TRUE,
     short_window |-> DefaultShortWindow, long_window |-> DefaultLongWindow,
     max_history |-> DefaultMaxHistory, trade_quantity |-> TradeQuantity]

\* cfg = BotConfig.from_env() at the head of create_app(); a ValueError
\* leaves create_app
FromEnv ==
    /\ api.pc = "env"
    /\ LET loaded == from_env(api.arg)
       IN  /\ cfg' = IF loaded.kind = "ok" THEN loaded.config ELSE cfg
           /\ api' = [api EXCEPT !.pc = IF loaded.kind = "ok" THEN "config" ELSE "invalid",
                                 !.result = loaded.kind]
    /\ UNCHANGED <<prices, trades, calls, hist, dashVars>>

\* main(): create_app() in any of the environments
InitConfig == InitAt({DefaultConfig}, "env", Environments)

NextConfig ==
    \/ FromEnv
    \/ CreateApp

SpecConfig == InitConfig /\ [][NextConfig]_vars

\* ------------------------------------------------------------------ claims

LoopTasks == {t \in Tasks : InLoop(t)}
LastUpdate == hist.updates[Len(hist.updates)]

\* C1: as long as bot.stop() has not been called, at most one task is inside
\* the loop of run(); and a task whose run() finds the bot already running
\* returns at once: the running flag stays set, no fetch is started, no price
\* or trade is recorded and no update is published.
C1_StartIsIdempotent ==
    [][ /\ (hist'.stops = 0 => Cardinality(LoopTasks') <= 1)
        /\ \A t \in Tasks :
             (Pending(t) /\ running /\ task'[t].pc \notin {"created", "due"}) =>
                 /\ task'[t].pc = "returned"
                 /\ running'
                 /\ hist' = hist
                 /\ prices' = prices
                 /\ trades' = trades
                 /\ calls' = calls
      ]_vars

\* C1 witness: no stop so far, one task is in the loop and another task, made
\* by a second Start, has returned without entering it.
C1_Witness ==
    /\ hist.stops = 0
    /\ running
    /\ \E t, u \in Tasks : t # u /\ InLoop(t) /\ task[u].pc = "returned"

\* C2: at no time are two price fetches, or two order submissions, of one
\* bot in progress together.
C2_IterationsAreSequential ==
    /\ Cardinality({t \in Tasks : task[t].pc = "fetch"}) <= 1
    /\ Cardinality({t \in Tasks : task[t].pc = "order"}) <= 1

\* a step in which stop_bot, having found the bot running, sets the status
\* line to stopped: right after bot.stop() (no task handle, or a handle whose
\* task has returned) or on resuming from "await bot_task"
StopReports ==
    \/ /\ hist'.stops > hist.stops
       /\ shutdown' = shutdown
       /\ (bot_task = None \/ task[bot_task[1]].pc = "returned")
    \/ \E t \in Tasks : waiters'[t] < waiters[t] /\ task[t].pc = "returned"

\* C3: whenever stop_bot, having found the bot running, sets the status line
\* to stopped, no task is inside the loop of run().
C3_StopWaitsForTheLoop ==
    [][ StopReports => LoopTasks' = {} ]_vars

\* C4: when the shutdown hook has returned, no task is inside the loop of
\* run().
C4_ShutdownWaitsForTheLoop ==
    shutdown.pc = "returned" => LoopTasks = {}

\* C5: in test mode the live endpoint new_order is never called, every order
\* that was submitted went to the validation endpoint, and every recorded
\* Trade has status "TEST".
C5_TestModeNeverExecutes ==
    cfg.test_mode =>
        /\ calls.new_order = 0
        /\ Len(trades) <= calls.new_order_test
        /\ \A i \in 1..Len(trades) : trades[i].status = "TEST"

\* C5 witness: in test mode with both credentials, two orders were submitted
\* and two trades recorded.
C5_Witness ==
    /\ cfg.test_mode
    /\ calls.new_order_test >= 2
    /\ Len(trades) >= 2

\* C6: a place_market_order call made with the key or the secret absent (or
\* empty) ends with the operational error, calls neither order endpoint and
\* records no trade, whatever the test mode.
C6_OrdersNeedCredentials ==
    [][ (/\ api.pc = "order"
         /\ api'.pc = "idle"
         /\ (cfg.api_key \in {None, Some("")} \/ cfg.api_secret \in {None, Some("")})) =>
            /\ api'.result = "TradingBotError"
            /\ calls' = calls
            /\ trades' = trades
      ]_vars

\* C6 witness: live mode, key present and secret absent; an order call has
\* ended with the operational error and no endpoint was ever called.
C6_Witness ==
    /\ ~cfg.test_mode
    /\ cfg.api_key = Some("key")
    /\ cfg.api_secret = None
    /\ api.pc = "idle"
    /\ api.orders > 0
    /\ api.result = "TradingBotError"
    /\ calls.new_order = 0
    /\ calls.new_order_test = 0

\* C7: a step in which a task's price fetch ends with the operational error
\* publishes exactly one update (no price, HOLD, no trade, the message),
\* leaves both histories, the running flag and the order endpoints alone and
\* takes the task to its poll wait; and a task that leaves its poll wait
\* while the bot is running starts the next fetch.
C7_FetchFailureIsSurfaced ==
    [][ \A t \in Tasks :
          /\ (task[t].pc = "fetch" /\ task'[t].pc # "fetch"
                /\ task'[t].got = "TradingBotError") =>
               /\ Len(hist'.updates) = Len(hist.updates) + 1
               /\ LastUpdate'.price = None
               /\ LastUpdate'.signal = "HOLD"
               /\ LastUpdate'.trade = None
               /\ LastUpdate'.error \in {Some("price_unavailable"),
                                         Some("unexpected_response")}
               /\ prices' = prices
               /\ trades' = trades
               /\ hist'.fetched = hist.fetched
               /\ calls'.new_order = calls.new_order
               /\ calls'.new_order_test = calls.new_order_test
               /\ running' = running
               /\ task'[t].pc = "sleep"
          /\ (task[t].pc = "sleep" /\ running /\ task'[t] # task[t]) =>
               task'[t].pc = "fetch"
      ]_vars

\* C7 witness: the bot is running, a task is in its poll wait after a failed
\* fetch, the update it published is the last one, and an earlier fetch of
\* the same run had succeeded.
C7_Witness ==
    /\ running
    /\ hist.updates # <<>>
    /\ LastUpdate.price = None
    /\ prices # <<>>
    /\ \E t \in Tasks : task[t].pc = "sleep" /\ task[t].got = "TradingBotError"

\* what the crossover rule of the strategy answers on a price history h
CrossoverSignal(h) ==
    evaluate([kind |-> "tuple", items |-> h], cfg.short_window, cfg.long_window)

\* a step in which task t ends a successful fetch with a history on which the
\* crossover rule answers BUY or SELL
SignalIteration(t) ==
    /\ task[t].pc = "fetch"
    /\ task'[t].pc # "fetch"
    /\ task'[t].got = "ok"
    /\ CrossoverSignal(prices') \in {"BUY", "SELL"}

\* C8: an iteration whose signal is BUY or SELL keeps the sampled price in
\* the history and stays inside the loop with the bot running; and when its
\* order submission fails with the operational error, one update is
\* published (the sampled price, the signal, no trade, the message), no trade
\* is recorded, the order is not submitted again and the bot stays running.
C8_OrderFailureIsContained ==
    [][ \A t \in Tasks :
          /\ SignalIteration(t) =>
               /\ prices' # <<>>
               /\ task'[t].pc # "raised"
               /\ running' = running
          /\ (task[t].pc = "order" /\ task'[t].pc # "order"
                /\ task'[t].got = "TradingBotError") =>
               /\ Len(hist'.updates) = Len(hist.updates) + 1
               /\ LastUpdate'.price = Some(task[t].price)
               /\ LastUpdate'.signal = task[t].signal
               /\ LastUpdate'.trade = None
               /\ LastUpdate'.error \in {Some("credentials_required"),
                                         Some("order_failed")}
               /\ trades' = trades
               /\ prices' = prices
               /\ calls'.new_order + calls'.new_order_test
                    <= calls.new_order + calls.new_order_test + 1
               /\ running' = running
               /\ task'[t].pc = "sleep"
      ]_vars

\* C9: an iteration whose signal is BUY or SELL submits one order for that
\* signal at the price it sampled; a successful order appends exactly one
\* Trade with that side, that price and the configured quantity; and no
\* other step changes the trade history.
C9_OneTradePerSuccessfulOrder ==
    [][ /\ \A t \in Tasks :
             /\ SignalIteration(t) =>
                  /\ task'[t].pc = "order"
                  /\ task'[t].signal = CrossoverSignal(prices')
                  /\ task'[t].price = prices'[Len(prices')]
             /\ (task[t].pc = "order" /\ task'[t].pc # "order"
                   /\ task'[t].got = "ok") =>
                  /\ Len(trades') = Len(trades) + 1
                  /\ SubSeq(trades', 1, Len(trades)) = trades
                  /\ trades'[Len(trades')].side = task[t].signal
                  /\ trades'[Len(trades')].price = task[t].price
                  /\ trades'[Len(trades')].quantity = cfg.trade_quantity
        /\ trades' # trades =>
             \E t \in Tasks : task[t].pc = "order" /\ task'[t].got = "ok"
      ]_vars

\* C10: the price history holds the last min(n, C) of the n prices fetched
\* successfully so far, oldest first, where C = max(maxHistory, longWindow + 5).
C10_PriceHistoryIsBoundedFifo ==
    LET n == Len(hist.fetched)
        C == IF cfg.max_history > cfg.long_window + 5
                 THEN cfg.max_history ELSE cfg.long_window + 5
        len == IF n < C THEN n ELSE C
    IN  /\ Len(prices) = len
        /\ Len(prices) <= C
        /\ \A i \in 1..len : prices[i] = hist.fetched[n - len + i]

\* C10 witness: more prices were fetched than the history holds, a fetch
\* failed in between, and the survivors are not all equal.
C10_Witness ==
    /\ Len(hist.fetched) > Len(prices)
    /\ calls.ticker_price > Len(hist.fetched)
    /\ api.pc = "idle"
    /\ prices[1] # prices[Len(prices)]

\* C11: a step in which a task that was inside the loop of run() ends, by
\* returning or with an exception, leaves the running flag false.
C11_LoopExitClearsTheFlag ==
    [][ \A t \in Tasks : (InLoop(t) /\ Finished(t)') => ~running' ]_vars

\* C11 witness: without any stop request a task has left the loop with an
\* exception raised after a successful fetch, and the flag is false.
C11_Witness ==
    /\ hist.stops = 0
    /\ ~running
    /\ \E t \in Tasks : task[t].pc = "raised" /\ task[t].got = "ok"

\* stop() has been called, the flag is still false and nothing is about to
\* start the bot again: no Start handler is in its balance refresh and no
\* created task is waiting for its first step
StopRequested ==
    /\ hist.stops > 0
    /\ ~running
    /\ starting = 0
    /\ \A t \in Tasks : ~Pending(t)

\* C12: after stop() the iteration in flight runs to its end: a fetch that
\* returns a price is followed by the order submission or by the publication
\* of that iteration's update and the poll wait; and a task that leaves its
\* poll wait with the flag false starts no fetch and returns, flag false.
C12_StopLetsTheIterationFinish ==
    [][ \A t \in Tasks :
          /\ (StopRequested /\ task[t].pc = "fetch" /\ task'[t].pc # "fetch"
                /\ task'[t].got = "ok") =>
               \/ task'[t].pc = "order"
               \/ /\ task'[t].pc = "sleep"
                  /\ Len(hist'.updates) = Len(hist.updates) + 1
                  /\ LastUpdate'.price = Some(prices'[Len(prices')])
          /\ (StopRequested /\ task[t].pc = "sleep" /\ task'[t] # task[t]) =>
               /\ task'[t].pc = "returned"
               /\ hist'.fetches = hist.fetches
               /\ ~running'
      ]_vars

\* C13: a Stop click handled while the bot is not running only sets the
\* status line to stopped: the flag stays false and the task handle, the
\* tasks, the waiting handlers and the histories are untouched; and stop()
\* called by the shutdown hook while the bot is not running leaves the flag
\* false and the tasks and histories untouched.
C13_StopWhenStoppedIsHarmless ==
    [][ /\ (StopClick /\ ~running) =>
             /\ ~running'
             /\ ui' = [ui EXCEPT !.status_label = "arrete"]
             /\ bot_task' = bot_task
             /\ task' = task
             /\ waiters' = waiters
             /\ prices' = prices
             /\ trades' = trades
             /\ hist' = hist
        /\ (Shutdown /\ ~running) =>
             /\ ~running'
             /\ task' = task
             /\ prices' = prices
             /\ trades' = trades
      ]_vars

\* C13 witness: no stop() was ever called, a Start has created a task that
\* has not started yet, and a Stop click has put the status line back to
\* stopped: flag false, handle and task as Start left them.
C13_Witness ==
    /\ hist.stops = 0
    /\ ~running
    /\ ui.status_label = "arrete"
    /\ bot_task # None
    /\ \A t \in Tasks : task[t].pc \in {"new", "created"}
    /\ \E t \in Tasks : task[t].pc = "created"

\* C14: without an API key the bot keeps running through every successful
\* fetch: the task does not end and the flag is unchanged; an iteration whose
\* history is shorter than longWindow + 1 publishes an update with the price,
\* HOLD, no trade and no error; an iteration whose signal is BUY or SELL goes
\* on to the order submission, whose failure is published as an update with
\* an error and no trade; and the trade history is always empty.
C14_RunsWithoutCredentials ==
    [][ cfg.api_key = None =>
          /\ trades' = <<>>
          /\ \A t \in Tasks :
               /\ (task[t].pc = "fetch" /\ task'[t].pc # "fetch"
                     /\ task'[t].got = "ok") =>
                    /\ task'[t].pc # "raised"
                    /\ running' = running
                    /\ Len(prices') < cfg.long_window + 1 =>
                         /\ Len(hist'.updates) = Len(hist.updates) + 1
                         /\ LastUpdate'.signal = "HOLD"
                         /\ LastUpdate'.trade = None
                         /\ LastUpdate'.error = None
                    /\ SignalIteration(t) => task'[t].pc = "order"
               /\ (task[t].pc = "order" /\ task'[t].pc # "order") =>
                    /\ Len(hist'.updates) = Len(hist.updates) + 1
                    /\ LastUpdate'.signal = task[t].signal
                    /\ LastUpdate'.trade = None
                    /\ LastUpdate'.error # None
      ]_vars

\* the sum of h[a..b]
RECURSIVE RangeSum(_, _, _)
RangeSum(h, a, b) == IF b < a THEN 0 ELSE h[b] + RangeSum(h, a, b - 1)

\* The decision rule on a history h for windows s < l, the means compared
\* by cross-multiplying the window sums.
ReferenceSignal(h, s, l) ==
    LET n == Len(h)
        shortMA == RangeSum(h, n - s + 1, n)
        longMA == RangeSum(h, n - l + 1, n)
        previousShortMA == RangeSum(h, n - s, n - 1)
        previousLongMA == RangeSum(h, n - l, n - 1)
    IN  IF n < l + 1 THEN "HOLD"
        ELSE IF shortMA * l > longMA * s /\ previousShortMA * l <= previousLongMA * s
            THEN "BUY"
        ELSE IF shortMA * l < longMA * s /\ previousShortMA * l >= previousLongMA * s
            THEN "SELL"
        ELSE "HOLD"

\* C15: on every history, for every pair of windows the strategy accepts,
\* evaluate returns what the decision rule gives.
C15_EvaluateIsTheCrossoverRule ==
    api.pc = "evaluated" =>
        api.signal = ReferenceSignal(api.arg, cfg.short_window, cfg.long_window)

\* C15 witness: with a short window of several prices, evaluate has
\* answered SELL on a history longer than longWindow + 1.
C15_Witness ==
    /\ api.pc = "evaluated"
    /\ api.signal = "SELL"
    /\ cfg.short_window >= 2
    /\ Len(api.arg) > cfg.long_window + 1

\* C17: once create_app has been called, the strategy was refused with the
\* ValueError exactly when shortWindow >= longWindow or a window is <= 0, and
\* a bot exists only with 0 < shortWindow < longWindow.
C17_WindowsAreValidated ==
    LET s == cfg.short_window
        l == cfg.long_window
    IN  api.pc # "config" =>
            /\ (s >= l \/ s <= 0 \/ l <= 0) <=> (api.pc = "refused" /\ api.result = "ValueError")
            /\ (0 < s /\ s < l) <=> api.pc \in {"idle", "evaluated"}

\* C17 witness: create_app was refused for two equal positive windows.
C17_Witness ==
    /\ api.pc = "refused"
    /\ cfg.short_window = cfg.long_window
    /\ cfg.short_window > 0

\* the short average is above (below) the long one on the first k prices
\* fetched, k being at least longWindow
ShortAbove(k) ==
    RangeSum(hist.fetched, k - cfg.short_window + 1, k) * cfg.long_window
        > RangeSum(hist.fetched, k - cfg.long_window + 1, k) * cfg.short_window
ShortBelow(k) ==
    RangeSum(hist.fetched, k - cfg.short_window + 1, k) * cfg.long_window
        < RangeSum(hist.fetched, k - cfg.long_window + 1, k) * cfg.short_window

\* C16: the k-th evaluation is made on the first k prices fetched (less the
\* evicted ones).  Between two evaluations that both answer BUY there is an
\* evaluation at which the short average was not above the long one, so two
\* evaluations in a row never both answer BUY; the same for SELL and below.
C16_OneSignalPerCrossing ==
    /\ Len(api.log) <= Len(hist.fetched)
    /\ \A i, j \in 1..Len(api.log) :
         (i < j /\ api.log[i] = api.log[j] /\ api.log[i] \in {"BUY", "SELL"}) =>
             \E k \in (i + 1)..(j - 1) :
                 IF api.log[i] = "BUY" THEN ~ShortAbove(k) ELSE ~ShortBelow(k)

\* C16 witness: BUY was answered twice, a fetch failed in between the
\* samples and the oldest prices have been evicted from the history.
C16_Witness ==
    /\ \E i, j \in 1..Len(api.log) : i < j /\ api.log[i] = "BUY" /\ api.log[j] = "BUY"
    /\ calls.ticker_price > Len(hist.fetched)
    /\ Len(hist.fetched) > Len(prices)

\* how the texts of the test-mode variables read: blank ones do not count
\* as present
IsBlankText(text) == text \in {None, Some(<<>>), Some(<<" ">>)}
ReadsAs(text) ==
    IF text \in {Some(<<"t", "r", "u", "e">>), Some(<<" ", "T", "r", "u", "e", " ">>)} THEN "True"
    ELSE IF text \in {Some(<<"f", "a", "l", "s", "e">>), Some(<<"O", "F", "F">>)} THEN "False"
    ELSE "ValueError"

\* C18: the text that decides testMode is the exchange-specific TEST_MODE
\* value when one is present and not blank (that of the active exchange, or
\* for an exchange other than binance the BINANCE_ one in its absence), and
\* BOT_TEST_MODE otherwise; testMode is what that text reads as, true when
\* both are absent, and loading fails when it is not a boolean.
C18_TestModeResolution ==
    LET env == api.arg
        own == IF env[EnvName(<<>>, "ACTIVE_EXCHANGE")] = Some(<<"K", "r", "a", "k", "e", "n">>)
                   THEN env[EnvName(KRAKEN, "TEST_MODE")]
                   ELSE env[EnvName(BINANCE, "TEST_MODE")]
        legacy == env[EnvName(BINANCE, "TEST_MODE")]
        general == env[EnvName(<<>>, "BOT_TEST_MODE")]
        expected == IF ~IsBlankText(own) THEN ReadsAs(own)
                    ELSE IF ~IsBlankText(legacy) THEN ReadsAs(legacy)
                    ELSE IF general = None THEN "True"
                    ELSE ReadsAs(general)
    IN  api.pc # "env" =>
            /\ expected = "ValueError" <=> api.pc = "invalid"
            /\ expected = "True" => cfg.test_mode
            /\ expected = "False" => ~cfg.test_mode

\* C18 witness: BINANCE_TEST_MODE=true and BOT_TEST_MODE=false were set, the
\* configuration was loaded and testMode is true.
C18_Witness ==
    /\ api.pc = "config"
    /\ api.arg[EnvName(<<>>, "ACTIVE_EXCHANGE")] = None
    /\ api.arg[EnvName(BINANCE, "TEST_MODE")] = Some(<<"t", "r", "u", "e">>)
    /\ api.arg[EnvName(<<>>, "BOT_TEST_MODE")] = Some(<<"f", "a", "l", "s", "e">>)
    /\ cfg.test_mode

\* a step of a dashboard handler other than Stop and the shutdown hook
QuietHandlerStep ==
    \/ StartClick
    \/ StartResume
    \/ RefreshClick
    \/ RefreshResume
    \/ \E t \in Tasks : StopResume(t)
    \/ ShutdownResume

\* a step of the Stop handler or of the shutdown hook up to "await bot_task"
StoppingHandlerStep ==
    \/ StopClick
    \/ Shutdown

\* C19 as stated: no step of a dashboard handler changes the price history,
\* the trade history or the running flag.
C19_HandlersWriteNothing ==
    [][ (QuietHandlerStep \/ StoppingHandlerStep) =>
            /\ prices' = prices
            /\ trades' = trades
            /\ running' = running
      ]_vars

\* C19 amended: no step of a dashboard handler changes the price history or
\* the trade history; Start, the balance refresh and the resumed handlers
\* leave the running flag alone; the Stop handler and the shutdown hook
\* change it only by clearing it through stop().
C19_HandlersOnlyClearTheFlag ==
    [][ /\ QuietHandlerStep =>
             /\ prices' = prices
             /\ trades' = trades
             /\ running' = running
        /\ StoppingHandlerStep =>
             /\ prices' = prices
             /\ trades' = trades
             /\ ~running'
             /\ running => hist'.stops = hist.stops + 1
      ]_vars

\* C19 witness: the Stop handler has cleared the flag while a task is still
\* inside the loop, a later Start is in its balance refresh and the
\* histories hold what the loop recorded.
C19_Witness ==
    /\ hist.stops = 1
    /\ ~running
    /\ starting > 0
    /\ prices # <<>>
    /\ prices = hist.fetched
    /\ \E t \in Tasks : InLoop(t) /\ waiters[t] > 0

\* C20: the chart's label list and price list always have the same length,
\* at most maxHistory.  A step that publishes an update without a price, or
\* no update, leaves both lists alone; a step that publishes an update with
\* a price appends one label and the price rounded to hundredths, and drops
\* the oldest pair exactly when the length would exceed maxHistory.
C20_ChartStaysParallelAndBounded ==
    [][ /\ Len(ui'.timestamps) = Len(ui'.prices)
        /\ Len(ui'.timestamps) <= cfg.max_history
        /\ IF Len(hist'.updates) = Len(hist.updates) + 1 /\ LastUpdate'.price # None
             THEN LET n == Len(ui.timestamps)
                      kept == IF n + 1 > cfg.max_history THEN 2 ELSE 1
                      rounded == ui'.prices[Len(ui'.prices)]
                  IN  /\ Len(ui'.timestamps) = n + 2 - kept
                      /\ SubSeq(ui'.timestamps, 1, n + 1 - kept)
                            = SubSeq(ui.timestamps, kept, n)
                      /\ SubSeq(ui'.prices, 1, n + 1 - kept) = SubSeq(ui.prices, kept, n)
                      /\ ui'.timestamps[Len(ui'.timestamps)] = Len(hist'.updates)
                      /\ rounded % 10 = 0
                      /\ rounded - LastUpdate'.price[1] \in (0 - 5)..5
             ELSE /\ ui'.timestamps = ui.timestamps
                  /\ ui'.prices = ui.prices
      ]_vars

\* C20 witness: more updates with a price were published than the chart
\* holds, one update came without a price, and the chart is full.
C20_Witness ==
    /\ Len(ui.timestamps) = cfg.max_history
    /\ Cardinality({i \in 1..Len(hist.updates) : hist.updates[i].price # None})
         > cfg.max_history
    /\ \E i \in 1..Len(hist.updates) : hist.updates[i].price = None
    /\ ui.timestamps[Len(ui.timestamps)] = Len(hist.updates)

\* the shape the loop gives an update (bot.py:127, 141)
WellShaped(update) ==
    /\ update.trade # None =>
         /\ update.signal \in {"BUY", "SELL"}
         /\ update.price # None
         /\ update.error = None
    /\ update.price = None =>
         /\ update.signal = "HOLD"
         /\ update.trade = None
         /\ update.error # None
    /\ update.signal \in {"BUY", "SELL"} =>
         (update.trade # None) # (update.error # None)
    /\ (update.signal = "HOLD" /\ update.price # None) =>
         /\ update.trade = None
         /\ update.error = None

\* a step in which task t ends an iteration of the loop body: it leaves its
\* last exchange call of the iteration for the poll wait or for the end of
\* the task, no exchange call having failed with an unexpected exception
IterationEnds(t) ==
    /\ task[t].pc \in {"fetch", "order"}
    /\ task'[t].pc \notin {"fetch", "order"}
    /\ task'[t].got # "Exception"

\* C21: every update published by the loop is well shaped, every iteration
\* that ends publishes exactly one update, and no other step publishes one.
C21_OneWellShapedUpdatePerIteration ==
    [][ /\ \A i \in 1..Len(hist'.updates) : WellShaped(hist'.updates[i])
        /\ \A t \in Tasks :
             IterationEnds(t) =>
                 /\ Len(hist'.updates) = Len(hist.updates) + 1
                 /\ SubSeq(hist'.updates, 1, Len(hist.updates)) = hist.updates
        /\ hist'.updates # hist.updates => \E t \in Tasks : IterationEnds(t)
      ]_vars

\* the bot is stopped and nothing under way will start it: the flag is
\* false, no Start handler is in its balance refresh and no created task is
\* waiting for its first step
Halted ==
    /\ ~running
    /\ starting = 0
    /\ \A t \in Tasks : ~Pending(t)

\* a step in which a stop_bot handler returns: at once (nicegui_app.py:158,
\* 161-164 with no task or an ended one) or after "await bot_task"
StopReturns ==
    \/ /\ StopClick
       /\ waiters' = waiters
       /\ ~(running /\ bot_task # None /\ task[bot_task[1]].pc = "raised")
    \/ \E t \in Tasks : StopResume(t) /\ task[t].pc = "returned"

\* C22: a Stop request is never lost.  When a Stop handler returns, the bot
\* is halted: the flag is false and neither a Start handler still in its
\* balance refresh nor a created task that has not taken its first step is
\* left to start it; and a halted bot stays halted and begins no fetch for
\* as long as no Start is clicked.
C22_StopIsNeverLost ==
    [][ /\ StopReturns => Halted'
        /\ (Halted /\ ~StartClick) =>
             /\ Halted'
             /\ hist'.fetches = hist.fetches
      ]_vars

\* C23: whenever a task is inside the loop of run(), the dashboard's
\* bot_task is the handle of that task.
C23_SingleOwningTaskHandle ==
    \A t \in Tasks : InLoop(t) => bot_task = Some(t)

====
